---- MODULE Spec2Model ----
(***************************************************************************)
(* A model of libcgifh: a paletted image (RGB palette + one byte per       *)
(* pixel), its palette operations, the clip dispatch and the drawing       *)
(* primitives built on it.                                                  *)
(*                                                                         *)
(* Two definitions of most functions exist in the repository: the ones of  *)
(* src/src/cgifh.c (impl "c") and the static inline ones of                *)
(* src/include/cgifh.h (impl "h").  Where they differ both are modelled.   *)
(***************************************************************************)
EXTENDS Integers, Sequences, FiniteSets, TLC

VARIABLES img, pre, last, ub, nops

vars == <<img, pre, last, ub, nops>>

(***************************************************************************)
(* Machine integers.  The C int is modelled IntBits wide and size_t twice  *)
(* as wide (the LP64 relation of 32 to 64 bits), so that the conversions   *)
(* of cgifh_create happen on small numbers.                                *)
(***************************************************************************)
IntBits == 8

INT_MAX == 2 ^ (IntBits - 1) - 1

SIZE_MOD == 2 ^ (2 * IntBits)

\* (int) v for a non-negative v of type size_t: wraps modulo 2^IntBits.
ToInt(v) ==
    LET m == v % (2 ^ IntBits)
    IN  IF m > INT_MAX THEN m - 2 ^ IntBits ELSE m

\* (uint8_t) v
ToU8(v) == v % 256

\* abs() of stdlib.h
Abs(v) == IF v < 0 THEN -v ELSE v

Min(a, b) == IF a <= b THEN a ELSE b

Max(a, b) == IF a >= b THEN a ELSE b

(***************************************************************************)
(* Program constants.                                                      *)
(***************************************************************************)
CGIFH_PALETTE_MAX == 256

CGIFH_CHANNEL_COUNT == 3

CGIFH_GLYPH_HEIGHT == 8

CGIFH_GLYPH_WIDTH == 8

\* The content of memory that malloc returned and nobody wrote yet.
Uninit == -1

(***************************************************************************)
(* struct cgifh.  live is whether the pointer refers to an allocation;     *)
(* data is the flexible array member, nbytes long (its allocated length).  *)
(***************************************************************************)
NoPalette == [i \in 0 .. (CGIFH_CHANNEL_COUNT * CGIFH_PALETTE_MAX - 1) |-> Uninit]

NullImg ==
    [live |-> FALSE, width |-> 0, height |-> 0, size |-> 0,
     palette_count |-> 0, palette |-> NoPalette, nbytes |-> 0,
     data |-> [i \in {} |-> Uninit]]

\* What no call has produced yet.  wrapped is whether int arithmetic of the
\* call overflowed and wrapped; pc and frame are where a call followed step
\* by step stands, and its local variables.
NoFrame == [x0 |-> 0, y0 |-> 0, error |-> 0, steps |-> 0]

NoCall ==
    [op |-> "none", impl |-> "c", args |-> <<>>, text |-> <<>>, ret |-> 0,
     idx_written |-> FALSE, idx |-> 0, px |-> "none", calls |-> <<>>,
     wrapped |-> FALSE, pc |-> "none", frame |-> NoFrame]

(***************************************************************************)
(* cgifh_create.  mallocOk is the allocator's answer.                      *)
(***************************************************************************)
CreateFails(width, height, mallocOk) ==
    \/ width = 0
    \/ height = 0
    \/ width > INT_MAX
    \/ height > INT_MAX
    \/ ~mallocOk

\* width * height in size_t arithmetic.
SizeProduct(width, height) == (width * height) % SIZE_MOD

CreateImg(width, height) ==
    [live |-> TRUE,
     width |-> ToInt(width),
     height |-> ToInt(height),
     size |-> ToInt(SizeProduct(width, height)),
     palette_count |-> 0,
     palette |-> NoPalette,
     nbytes |-> SizeProduct(width, height),
     data |-> [i \in 0 .. (SizeProduct(width, height) - 1) |-> Uninit]]

(***************************************************************************)
(* cgifh_palette_add: the image after the call, and what *idx_out holds.   *)
(***************************************************************************)
\* A full test that is off by one.
PaletteFullOffByOne(im) == im.palette_count > CGIFH_PALETTE_MAX

PaletteFull(im) == im.palette_count >= CGIFH_PALETTE_MAX

\* A store that always writes the first entry.
PaletteStoreAtZero(im, r, g, b) ==
    [im EXCEPT
       !.palette = [im.palette EXCEPT ![0] = r, ![1] = g, ![2] = b],
       !.palette_count = im.palette_count + 1]

\* The three bytes of entry palette_count are written and the count grows.
PaletteStore(im, r, g, b) ==
    [im EXCEPT
       !.palette = [im.palette EXCEPT
            ![CGIFH_CHANNEL_COUNT * im.palette_count + 0] = r,
            ![CGIFH_CHANNEL_COUNT * im.palette_count + 1] = g,
            ![CGIFH_CHANNEL_COUNT * im.palette_count + 2] = b],
       !.palette_count = im.palette_count + 1]

\* src/src/cgifh.c writes the index before the increment,
IdxOutC(im) == ToU8(im.palette_count)

\* src/include/cgifh.h after it (a uint16_t stored to a uint8_t).
IdxOutH(im) == ToU8(im.palette_count + 1)

IdxOut(impl, im) == IF impl = "c" THEN IdxOutC(im) ELSE IdxOutH(im)

(***************************************************************************)
(* cgifh_palette_add_blend: one channel.                                   *)
(***************************************************************************)
\* A blend that divides by 256 instead of 255.
BlendChannelBy256(c0, c1, pos) ==
    ToU8(IF c0 <= c1
         THEN c0 + ((c1 - c0) * pos) \div 256
         ELSE c0 - ((c0 - c1) * pos) \div 256)

\* A blend whose two branches are exchanged: it moves away from c1.
BlendValueAway(c0, c1, pos) ==
    IF c0 <= c1
    THEN c0 - ((c1 - c0) * pos) \div 255
    ELSE c0 + ((c0 - c1) * pos) \div 255

\* The int the conditional expression yields, before the cast.
BlendValue(c0, c1, pos) ==
    IF c0 <= c1
    THEN c0 + ((c1 - c0) * pos) \div 255
    ELSE c0 - ((c0 - c1) * pos) \div 255

BlendChannel(c0, c1, pos) == ToU8(BlendValue(c0, c1, pos))

\* A read of a palette byte: an unwritten byte may hold anything.
ByteSamples == {0, 255}

ReadByte(im, i) ==
    IF im.palette[i] = Uninit THEN ByteSamples ELSE {im.palette[i]}


(***************************************************************************)
(* The calls, as actions.  Every call records the image before it (pre)    *)
(* and what the caller passed and got back (last).  ub is set once a call  *)
(* has had undefined behaviour (an access outside an object); nothing is   *)
(* modelled after that.                                                    *)
(***************************************************************************)
Usable == img.live /\ ~ub

Called(op, impl, args) == [NoCall EXCEPT !.op = op, !.impl = impl, !.args = args]

\* cgifh_create(width, height)
Create(impl, width, height, mallocOk) ==
    /\ ~img.live
    /\ ~ub
    /\ pre' = img
    /\ IF CreateFails(width, height, mallocOk)
       THEN /\ img' = NullImg
            /\ last' = [Called("create", impl, <<width, height>>) EXCEPT !.ret = 0]
       ELSE /\ img' = CreateImg(width, height)
            /\ last' = [Called("create", impl, <<width, height>>) EXCEPT !.ret = 1]
    /\ nops' = nops + 1
    /\ UNCHANGED ub

\* cgifh_destroy(img)
Destroy ==
    /\ Usable
    /\ pre' = img
    /\ img' = NullImg
    /\ last' = Called("destroy", "c", <<>>)
    /\ nops' = nops + 1
    /\ UNCHANGED ub

\* cgifh_clear(img, colour): writes data[0 .. size-1].
Clear(colour) ==
    /\ Usable
    /\ pre' = img
    /\ img' = [img EXCEPT !.data = [i \in DOMAIN img.data |->
                                      IF i < img.size THEN colour ELSE img.data[i]]]
    /\ ub' = (img.size > img.nbytes)
    /\ last' = Called("clear", "h", <<colour>>)
    /\ nops' = nops + 1

\* The body of cgifh_palette_add, for the call named op.
PaletteAddStep(op, impl, args, r, g, b, wantIdx) ==
    /\ pre' = img
    /\ IF PaletteFull(img)
       THEN /\ img' = img
            /\ last' = [Called(op, impl, args) EXCEPT !.ret = 0]
       ELSE /\ img' = PaletteStore(img, r, g, b)
            /\ last' = [Called(op, impl, args) EXCEPT
                          !.ret = 1,
                          !.idx_written = wantIdx,
                          !.idx = IF wantIdx THEN IdxOut(impl, img) ELSE 0]
    /\ nops' = nops + 1
    /\ UNCHANGED ub

\* cgifh_palette_add(img, r, g, b, idx_out); wantIdx is idx_out != NULL.
PaletteAdd(impl, r, g, b, wantIdx) ==
    /\ Usable
    /\ PaletteAddStep("palette_add", impl, <<r, g, b>>, r, g, b, wantIdx)

\* cgifh_palette_add_blend(img, idx0, idx1, pos, idx_out)
PaletteAddBlend(impl, idx0, idx1, pos, wantIdx) ==
    /\ Usable
    /\ \E r0 \in ReadByte(img, CGIFH_CHANNEL_COUNT * idx0 + 0),
          g0 \in ReadByte(img, CGIFH_CHANNEL_COUNT * idx0 + 1),
          b0 \in ReadByte(img, CGIFH_CHANNEL_COUNT * idx0 + 2),
          r1 \in ReadByte(img, CGIFH_CHANNEL_COUNT * idx1 + 0),
          g1 \in ReadByte(img, CGIFH_CHANNEL_COUNT * idx1 + 1),
          b1 \in ReadByte(img, CGIFH_CHANNEL_COUNT * idx1 + 2) :
            PaletteAddStep("palette_add_blend", impl, <<idx0, idx1, pos>>,
                           BlendChannel(r0, r1, pos),
                           BlendChannel(g0, g1, pos),
                           BlendChannel(b0, b1, pos), wantIdx)

(***************************************************************************)
(* Images a program can hold: cgifh_create followed by n calls of          *)
(* cgifh_palette_add with the colours Ramp(0), ..., Ramp(n-1).             *)
(***************************************************************************)
Ramp(i) == <<i, 255 - i, (i * i) % 256>>

RampImg(width, height, n) ==
    [CreateImg(width, height) EXCEPT
       !.palette = [i \in DOMAIN NoPalette |->
            IF i \div CGIFH_CHANNEL_COUNT < n
            THEN Ramp(i \div CGIFH_CHANNEL_COUNT)[(i % CGIFH_CHANNEL_COUNT) + 1]
            ELSE Uninit],
       !.palette_count = n]

\* How many colours the palette holds when the modelled calls start.
NearFull == 2

StartCounts == {0, 3} \cup ((CGIFH_PALETTE_MAX - NearFull) .. CGIFH_PALETTE_MAX)

InitWith(images) ==
    /\ img \in images
    /\ pre = NullImg
    /\ last = NoCall
    /\ ub = FALSE
    /\ nops = 0

(***************************************************************************)
(* SpecCreate: cgifh_create on the whole range of its size_t arguments.    *)
(***************************************************************************)
RootMax == CHOOSE r \in 1 .. INT_MAX : r * r <= INT_MAX /\ (r + 1) * (r + 1) > INT_MAX

CreateArgs == {0, 1, 2, RootMax, RootMax + 1, INT_MAX, INT_MAX + 1, SIZE_MOD - 1}

Impls == {"c", "h"}

InitCreate == InitWith({NullImg})

\* How many calls a run makes.
MaxOps == 2

NextCreate ==
    \/ /\ last.op = "none"
       /\ \E impl \in Impls, w \in CreateArgs, h \in CreateArgs, ok \in BOOLEAN :
             Create(impl, w, h, ok)
    \/ /\ nops < MaxOps
       /\ \/ \E c \in {0, 1} : Clear(c)
          \/ Destroy

SpecCreate == InitCreate /\ [][NextCreate]_vars

(***************************************************************************)
(* SpecPalette: one palette call on an image whose palette holds           *)
(* 0, 3, ..., 256 colours.                                                 *)
(***************************************************************************)
Colours == {<<0, 0, 0>>, <<255, 255, 255>>, <<18, 52, 86>>}

BlendIdx == {0, 2, CGIFH_PALETTE_MAX - 3, CGIFH_PALETTE_MAX - 1}

BlendPos == {0, 128, 255}

InitPalette == InitWith({RampImg(1, 1, n) : n \in StartCounts})

NextPalette ==
    /\ last.op = "none"
    /\ \/ \E impl \in Impls, c \in Colours, wantIdx \in BOOLEAN :
             PaletteAdd(impl, c[1], c[2], c[3], wantIdx)
       \/ \E impl \in Impls, idx0 \in BlendIdx, idx1 \in BlendIdx,
             pos \in BlendPos, wantIdx \in BOOLEAN :
             PaletteAddBlend(impl, idx0, idx1, pos, wantIdx)

SpecPalette == InitPalette /\ [][NextPalette]_vars


(***************************************************************************)
(* SpecBlend: one cgifh_palette_add_blend of the first two colours of a    *)
(* palette, for every pos.                                                 *)
(***************************************************************************)
\* The pairs of colours the palettes start with: rising, falling and equal
\* channels, at the ends and in the middle of the range.
BlendPairs ==
    {<<<<0, 255, 128>>, <<255, 0, 128>>>>,
     <<<<1, 254, 7>>, <<2, 3, 200>>>>}

\* cgifh_create, then cgifh_palette_add of the two colours.
BlendImg(pair) ==
    PaletteStore(PaletteStore(CreateImg(1, 1), pair[1][1], pair[1][2], pair[1][3]),
                 pair[2][1], pair[2][2], pair[2][3])

InitBlend == InitWith({BlendImg(pair) : pair \in BlendPairs})

NextBlend ==
    /\ last.op = "none"
    /\ \E impl \in Impls, pos \in 0 .. 255 : PaletteAddBlend(impl, 0, 1, pos, TRUE)

SpecBlend == InitBlend /\ [][NextBlend]_vars

(***************************************************************************)
(* The pixel setters and the clip dispatch.                                *)
(***************************************************************************)
InImage(im, x, y) == x >= 0 /\ x < im.width /\ y >= 0 /\ y < im.height

\* A dispatch that does not put the corners in order.
GetPxFnNoSwap(im, test_x0, test_y0, test_x1, test_y1) ==
    IF test_x0 >= 0 /\ test_x1 < im.width /\ test_y0 >= 0 /\ test_y1 < im.height
    THEN "pixel"
    ELSE IF test_x1 < 0 \/ test_x0 >= im.width \/ test_y1 < 0 \/ test_y0 >= im.height
    THEN "NULL"
    ELSE "clipped"

\* A dispatch whose inside test compares the right edge with the height.
GetPxFnMixedAxes(im, test_x0, test_y0, test_x1, test_y1) ==
    LET x0 == IF test_x0 > test_x1 THEN test_x1 ELSE test_x0
        x1 == IF test_x0 > test_x1 THEN test_x0 ELSE test_x1
        y0 == IF test_y0 > test_y1 THEN test_y1 ELSE test_y0
        y1 == IF test_y0 > test_y1 THEN test_y0 ELSE test_y1
    IN  IF x0 >= 0 /\ x1 < im.height /\ y0 >= 0 /\ y1 < im.height
        THEN "pixel"
        ELSE IF x1 < 0 \/ x0 >= im.width \/ y1 < 0 \/ y0 >= im.height
        THEN "NULL"
        ELSE "clipped"

\* cgifh_get_px_fn of src/src/cgifh.c: "pixel" is cgifh_pixel, "clipped" is
\* cgifh_pixel_clipped.
GetPxFnC(im, test_x0, test_y0, test_x1, test_y1) ==
    LET clip_x0 == 0
        clip_y0 == 0
        clip_x1 == im.width
        clip_y1 == im.height
        x0 == IF test_x0 > test_x1 THEN test_x1 ELSE test_x0
        x1 == IF test_x0 > test_x1 THEN test_x0 ELSE test_x1
        y0 == IF test_y0 > test_y1 THEN test_y1 ELSE test_y0
        y1 == IF test_y0 > test_y1 THEN test_y0 ELSE test_y1
    IN  IF x0 >= clip_x0 /\ x1 < clip_x1 /\ y0 >= clip_y0 /\ y1 < clip_y1
        THEN "pixel"
        ELSE IF x1 < clip_x0 \/ x0 >= clip_x1 \/ y1 < clip_y0 \/ y0 >= clip_y1
        THEN "NULL"
        ELSE "clipped"

\* cgifh_get_px_fn of src/include/cgifh.h: the corners are not ordered.
GetPxFnH(im, test_x0, test_y0, test_x1, test_y1) ==
    LET clip_x0 == 0
        clip_y0 == 0
        clip_x1 == im.width
        clip_y1 == im.height
    IN  IF test_x0 >= clip_x0 /\ test_x1 < clip_x1
           /\ test_y0 >= clip_y0 /\ test_y1 < clip_y1
        THEN "pixel"
        ELSE IF test_x1 < clip_x0 \/ test_x0 >= clip_x1
                \/ test_y1 < clip_y0 \/ test_y0 >= clip_y1
        THEN "NULL"
        ELSE "clipped"

cgifh_get_px_fn(impl, im, test_x0, test_y0, test_x1, test_y1) ==
    IF impl = "c"
    THEN GetPxFnC(im, test_x0, test_y0, test_x1, test_y1)
    ELSE GetPxFnH(im, test_x0, test_y0, test_x1, test_y1)

\* One call px(img, colour, x, y).
PxCall(px, x, y) == [px |-> px, x |-> x, y |-> y]

\* A clipped setter without the test x >= 0.
StoresNoLeftTest(im, c) ==
    \/ c.px = "pixel"
    \/ c.px = "clipped" /\ c.x < im.width /\ c.y >= 0 /\ c.y < im.height

\* A clipped setter that lets the column x = width through.
StoresOffByOne(im, c) ==
    \/ c.px = "pixel"
    \/ c.px = "clipped" /\ c.x >= 0 /\ c.x <= im.width /\ c.y >= 0 /\ c.y < im.height

\* Whether the call reaches the store of cgifh_pixel: always from cgifh_pixel,
\* inside the image from cgifh_pixel_clipped.
Stores(im, c) ==
    \/ c.px = "pixel"
    \/ c.px = "clipped" /\ InImage(im, c.x, c.y)

\* cgifh_pixel: the byte it writes.
PixelIndex(im, c) == c.y * im.width + c.x

\* The image after the calls, all with the same colour.
ApplyCalls(im, colour, calls) ==
    LET hit == {PixelIndex(im, calls[k]) :
                    k \in {j \in DOMAIN calls : Stores(im, calls[j])}}
    IN  [im EXCEPT !.data = [i \in DOMAIN im.data |->
                                IF i \in hit THEN colour ELSE im.data[i]]]

\* Whether one of the calls writes outside data[0 .. nbytes-1].
CallsOverrun(im, calls) ==
    \E k \in DOMAIN calls :
        /\ Stores(im, calls[k])
        /\ PixelIndex(im, calls[k]) \notin DOMAIN im.data

(***************************************************************************)
(* The calls of px each primitive makes, in order.                         *)
(***************************************************************************)
\* cgifh_h_line
HLineCalls(px, x0, x1, y) ==
    IF x0 <= x1
    THEN [k \in 1 .. (x1 - x0 + 1) |-> PxCall(px, x0 + k - 1, y)]
    ELSE [k \in 1 .. (x0 - x1 + 1) |-> PxCall(px, x1 + k - 1, y)]

\* cgifh_v_line
VLineCalls(px, y0, y1, x) ==
    IF y0 <= y1
    THEN [k \in 1 .. (y1 - y0 + 1) |-> PxCall(px, x, y0 + k - 1)]
    ELSE [k \in 1 .. (y0 - y1 + 1) |-> PxCall(px, x, y1 + k - 1)]

\* "for (int v = lo; v <= INT_MAX; v++)": the increment of v = INT_MAX is a
\* signed overflow.  Where the build lets it wrap, v goes on from INT_MIN and
\* the condition never fails: the pass INT_MIN .. INT_MAX is made again and
\* again, and one pass has every effect on the image the loop can have.
WrappedPass == [k \in 1 .. (2 * INT_MAX + 2) |-> k - INT_MAX - 2]

\* cgifh_h_line when col has wrapped.
HLineWrapCalls(px, x0, x1, y) ==
    HLineCalls(px, x0, x1, y) \o
    [k \in DOMAIN WrappedPass |-> PxCall(px, WrappedPass[k], y)]

\* cgifh_v_line when row has wrapped.
VLineWrapCalls(px, y0, y1, x) ==
    VLineCalls(px, y0, y1, x) \o
    [k \in DOMAIN WrappedPass |-> PxCall(px, x, WrappedPass[k])]

\* The outcomes of the loop's overflow: a build that counts the iterations
\* leaves the loop after v = INT_MAX (FALSE), one that wraps does not (TRUE).
LoopWraps(px, hi) == IF px # "NULL" /\ hi = INT_MAX THEN BOOLEAN ELSE {FALSE}

\* cgifh_line: the while (true) loop.
RECURSIVE LineLoop(_, _, _, _, _, _, _, _, _, _)
LineLoop(px, x0, y0, x1, y1, sx, sy, dx, dy, error) ==
    IF x0 = x1 /\ y0 = y1
    THEN <<PxCall(px, x0, y0)>>
    ELSE LET error2 == 2 * error
             stepx == error2 >= dy
             stepy == error2 <= dx
         IN  <<PxCall(px, x0, y0)>> \o
             LineLoop(px,
                      IF stepx THEN x0 + sx ELSE x0,
                      IF stepy THEN y0 + sy ELSE y0,
                      x1, y1, sx, sy, dx, dy,
                      error + (IF stepx THEN dy ELSE 0) + (IF stepy THEN dx ELSE 0))

\* A line that steps along x only: right for shallow slopes alone.
LineCallsXMajor(px, x0, y0, x1, y1) ==
    LET sx == IF x0 < x1 THEN 1 ELSE -1
        sy == IF y0 < y1 THEN 1 ELSE -1
        dx == Abs(x1 - x0)
        dy == Abs(y1 - y0)
    IN  [k \in 1 .. (dx + 1) |->
            PxCall(px, x0 + sx * (k - 1),
                   IF dx = 0 THEN y0 ELSE y0 + sy * (((k - 1) * dy) \div dx))]

\* cgifh_line
LineCalls(px, x0, y0, x1, y1) ==
    LET sx == IF x0 < x1 THEN 1 ELSE -1
        sy == IF y0 < y1 THEN 1 ELSE -1
        dx == Abs(x1 - x0)
        dy == -Abs(y1 - y0)
    IN  LineLoop(px, x0, y0, x1, y1, sx, sy, dx, dy, dx + dy)

\* A fill whose loops include the far edges.
RectCallsInclusive(px, x, y, w, h) ==
    IF w < 0 \/ h < 0
    THEN <<>>
    ELSE [k \in 1 .. ((w + 1) * (h + 1)) |->
            PxCall(px, x + ((k - 1) % (w + 1)), y + ((k - 1) \div (w + 1)))]

\* cgifh_rect_fill: rows y .. y+h-1, in each the columns x .. x+w-1.
RectCalls(px, x, y, w, h) ==
    IF w <= 0 \/ h <= 0
    THEN <<>>
    ELSE [k \in 1 .. (w * h) |->
            PxCall(px, x + ((k - 1) % w), y + ((k - 1) \div w))]

(***************************************************************************)
(* The font: font_h8, indexed by character code.  Codes the initialiser    *)
(* does not name are zero-initialised.                                     *)
(***************************************************************************)
FontGlyphs ==
    32 :> [advance |-> 3, data |-> <<0, 0, 0, 0, 0, 0, 0, 0>>] @@
    33 :> [advance |-> 2, data |-> <<128, 128, 128, 128, 0, 128, 0, 0>>] @@
    34 :> [advance |-> 4, data |-> <<160, 160, 0, 0, 0, 0, 0, 0>>] @@
    40 :> [advance |-> 3, data |-> <<64, 128, 128, 128, 128, 128, 64, 0>>] @@
    41 :> [advance |-> 3, data |-> <<128, 64, 64, 64, 64, 64, 128, 0>>] @@
    44 :> [advance |-> 3, data |-> <<0, 0, 0, 0, 64, 128, 0, 0>>] @@
    45 :> [advance |-> 4, data |-> <<0, 0, 0, 224, 0, 0, 0, 0>>] @@
    46 :> [advance |-> 2, data |-> <<0, 0, 0, 0, 0, 128, 0, 0>>] @@
    48 :> [advance |-> 6, data |-> <<112, 136, 152, 200, 136, 112, 0, 0>>] @@
    49 :> [advance |-> 6, data |-> <<32, 96, 32, 32, 32, 112, 0, 0>>] @@
    50 :> [advance |-> 6, data |-> <<112, 136, 16, 96, 128, 248, 0, 0>>] @@
    51 :> [advance |-> 6, data |-> <<112, 136, 48, 8, 136, 112, 0, 0>>] @@
    52 :> [advance |-> 6, data |-> <<16, 48, 80, 144, 248, 16, 0, 0>>] @@
    53 :> [advance |-> 6, data |-> <<248, 128, 240, 8, 136, 112, 0, 0>>] @@
    54 :> [advance |-> 6, data |-> <<112, 128, 240, 136, 136, 112, 0, 0>>] @@
    55 :> [advance |-> 6, data |-> <<248, 16, 32, 64, 64, 64, 0, 0>>] @@
    56 :> [advance |-> 6, data |-> <<112, 136, 112, 136, 136, 112, 0, 0>>] @@
    57 :> [advance |-> 6, data |-> <<112, 136, 136, 120, 8, 112, 0, 0>>] @@
    58 :> [advance |-> 2, data |-> <<0, 0, 128, 0, 0, 128, 0, 0>>] @@
    59 :> [advance |-> 3, data |-> <<0, 0, 64, 0, 0, 64, 128, 0>>] @@
    63 :> [advance |-> 6, data |-> <<112, 136, 16, 32, 0, 32, 0, 0>>] @@
    65 :> [advance |-> 6, data |-> <<32, 80, 136, 248, 136, 136, 0, 0>>] @@
    66 :> [advance |-> 6, data |-> <<240, 136, 240, 136, 136, 240, 0, 0>>] @@
    67 :> [advance |-> 6, data |-> <<112, 136, 128, 128, 136, 112, 0, 0>>] @@
    68 :> [advance |-> 6, data |-> <<240, 136, 136, 136, 136, 240, 0, 0>>] @@
    69 :> [advance |-> 6, data |-> <<248, 128, 240, 128, 128, 248, 0, 0>>] @@
    70 :> [advance |-> 6, data |-> <<248, 128, 240, 128, 128, 128, 0, 0>>] @@
    71 :> [advance |-> 6, data |-> <<112, 136, 128, 152, 136, 112, 0, 0>>] @@
    72 :> [advance |-> 6, data |-> <<136, 136, 248, 136, 136, 136, 0, 0>>] @@
    73 :> [advance |-> 4, data |-> <<224, 64, 64, 64, 64, 224, 0, 0>>] @@
    74 :> [advance |-> 5, data |-> <<112, 16, 16, 16, 144, 96, 0, 0>>] @@
    75 :> [advance |-> 6, data |-> <<144, 160, 192, 160, 144, 136, 0, 0>>] @@
    76 :> [advance |-> 5, data |-> <<128, 128, 128, 128, 128, 240, 0, 0>>] @@
    77 :> [advance |-> 8, data |-> <<130, 198, 170, 146, 146, 130, 0, 0>>] @@
    78 :> [advance |-> 6, data |-> <<136, 200, 168, 152, 136, 136, 0, 0>>] @@
    79 :> [advance |-> 6, data |-> <<112, 136, 136, 136, 136, 112, 0, 0>>] @@
    80 :> [advance |-> 6, data |-> <<240, 136, 240, 128, 128, 128, 0, 0>>] @@
    81 :> [advance |-> 6, data |-> <<112, 136, 136, 136, 80, 56, 0, 0>>] @@
    82 :> [advance |-> 6, data |-> <<224, 144, 224, 144, 136, 136, 0, 0>>] @@
    83 :> [advance |-> 7, data |-> <<120, 132, 96, 24, 132, 120, 0, 0>>] @@
    84 :> [advance |-> 6, data |-> <<248, 32, 32, 32, 32, 32, 0, 0>>] @@
    85 :> [advance |-> 6, data |-> <<136, 136, 136, 136, 136, 112, 0, 0>>] @@
    86 :> [advance |-> 6, data |-> <<136, 136, 136, 80, 80, 32, 0, 0>>] @@
    87 :> [advance |-> 8, data |-> <<130, 130, 146, 170, 198, 130, 0, 0>>] @@
    88 :> [advance |-> 6, data |-> <<136, 80, 32, 32, 80, 136, 0, 0>>] @@
    89 :> [advance |-> 6, data |-> <<136, 136, 80, 32, 32, 32, 0, 0>>] @@
    90 :> [advance |-> 5, data |-> <<240, 16, 32, 64, 128, 240, 0, 0>>] @@
    91 :> [advance |-> 3, data |-> <<192, 128, 128, 128, 128, 128, 192, 0>>] @@
    93 :> [advance |-> 3, data |-> <<192, 64, 64, 64, 64, 64, 192, 0>>] @@
    95 :> [advance |-> 6, data |-> <<0, 0, 0, 0, 0, 0, 0, 248>>] @@
    97 :> [advance |-> 5, data |-> <<0, 224, 16, 112, 144, 112, 0, 0>>] @@
    98 :> [advance |-> 6, data |-> <<128, 240, 136, 136, 136, 240, 0, 0>>] @@
    99 :> [advance |-> 6, data |-> <<0, 112, 136, 128, 136, 112, 0, 0>>] @@
    100 :> [advance |-> 6, data |-> <<8, 120, 136, 136, 136, 120, 0, 0>>] @@
    101 :> [advance |-> 6, data |-> <<0, 112, 136, 240, 128, 120, 0, 0>>] @@
    102 :> [advance |-> 4, data |-> <<96, 128, 224, 128, 128, 128, 0, 0>>] @@
    103 :> [advance |-> 5, data |-> <<0, 96, 144, 144, 144, 112, 16, 224>>] @@
    104 :> [advance |-> 5, data |-> <<128, 224, 144, 144, 144, 144, 0, 0>>] @@
    105 :> [advance |-> 2, data |-> <<128, 0, 128, 128, 128, 128, 0, 0>>] @@
    106 :> [advance |-> 3, data |-> <<64, 0, 64, 64, 64, 64, 64, 128>>] @@
    107 :> [advance |-> 5, data |-> <<128, 144, 160, 192, 160, 144, 0, 0>>] @@
    108 :> [advance |-> 2, data |-> <<128, 128, 128, 128, 128, 128, 0, 0>>] @@
    109 :> [advance |-> 6, data |-> <<0, 240, 168, 168, 136, 136, 0, 0>>] @@
    110 :> [advance |-> 5, data |-> <<0, 224, 144, 144, 144, 144, 0, 0>>] @@
    111 :> [advance |-> 5, data |-> <<0, 96, 144, 144, 144, 96, 0, 0>>] @@
    112 :> [advance |-> 5, data |-> <<0, 224, 144, 144, 144, 224, 128, 128>>] @@
    113 :> [advance |-> 5, data |-> <<0, 96, 144, 144, 144, 112, 16, 16>>] @@
    114 :> [advance |-> 5, data |-> <<0, 224, 144, 128, 128, 128, 0, 0>>] @@
    115 :> [advance |-> 6, data |-> <<0, 120, 128, 112, 8, 240, 0, 0>>] @@
    116 :> [advance |-> 4, data |-> <<128, 224, 128, 128, 128, 96, 0, 0>>] @@
    117 :> [advance |-> 5, data |-> <<0, 144, 144, 144, 144, 112, 0, 0>>] @@
    118 :> [advance |-> 6, data |-> <<0, 136, 136, 136, 80, 32, 0, 0>>] @@
    119 :> [advance |-> 6, data |-> <<0, 136, 168, 168, 168, 112, 0, 0>>] @@
    120 :> [advance |-> 6, data |-> <<0, 136, 80, 32, 80, 136, 0, 0>>] @@
    121 :> [advance |-> 5, data |-> <<0, 144, 144, 144, 144, 112, 16, 224>>] @@
    122 :> [advance |-> 5, data |-> <<0, 240, 16, 96, 128, 240, 0, 0>>] @@
    123 :> [advance |-> 4, data |-> <<32, 64, 64, 192, 64, 64, 32, 0>>] @@
    125 :> [advance |-> 4, data |-> <<128, 64, 64, 96, 64, 64, 128, 0>>]

NoGlyph == [advance |-> 0, data |-> <<0, 0, 0, 0, 0, 0, 0, 0>>]

\* CGIFH_GLYPH_COUNT: the length of font_h8 as src/src/font.h declares it.
CGIFH_GLYPH_COUNT == 128

\* The length of font_h8[] in src/include/cgifh.h: its last designator + 1.
FontLenH == 126

FontLen(impl) == IF impl = "c" THEN CGIFH_GLYPH_COUNT ELSE FontLenH

\* A row with its eight bits in the opposite order.
MirrorRow(v) ==
    LET bit(c) == (v \div (2 ^ c)) % 2
    IN  128 * bit(0) + 64 * bit(1) + 32 * bit(2) + 16 * bit(3)
        + 8 * bit(4) + 4 * bit(5) + 2 * bit(6) + bit(7)

\* A table whose rows were entered with the leftmost column in the least
\* significant bit.
font_h8Mirrored(code) ==
    IF code \in DOMAIN FontGlyphs
    THEN [FontGlyphs[code] EXCEPT
            !.data = [r \in 1 .. 8 |-> MirrorRow(FontGlyphs[code].data[r])]]
    ELSE NoGlyph

font_h8(code) == IF code \in DOMAIN FontGlyphs THEN FontGlyphs[code] ELSE NoGlyph

\* cgifh_get_glyph: whether it returns NULL for the byte.
GlyphIsNull(impl, character) == character >= FontLen(impl)

\* A bit test that counts the columns from the least significant bit.
GlyphBitLsbFirst(glyph, row, col) ==
    (glyph.data[row + 1] \div (2 ^ col)) % 2 = 1

\* glyph->data[row] & (0x80 >> col), rows and columns counted from 0.
GlyphBit(glyph, row, col) ==
    (glyph.data[row + 1] \div (2 ^ (7 - col))) % 2 = 1

\* The scale_x by scale_y block of one set bit: i outside, j inside.
BlockCalls(px, xx, y, scale_x, scale_y) ==
    IF scale_x <= 0 \/ scale_y <= 0
    THEN <<>>
    ELSE [k \in 1 .. (scale_x * scale_y) |->
            PxCall(px, xx + ((k - 1) % scale_x), y + ((k - 1) \div scale_x))]

RECURSIVE GlyphRowCalls(_, _, _, _, _, _, _, _)
GlyphRowCalls(px, glyph, row, col, xx, y, scale_x, scale_y) ==
    IF col >= CGIFH_GLYPH_WIDTH
    THEN <<>>
    ELSE (IF GlyphBit(glyph, row, col)
          THEN BlockCalls(px, xx, y, scale_x, scale_y)
          ELSE <<>>) \o
         GlyphRowCalls(px, glyph, row, col + 1, xx + scale_x, y, scale_x, scale_y)

\* cgifh_char_scaled: the loop over the rows.
RECURSIVE GlyphCalls(_, _, _, _, _, _, _)
GlyphCalls(px, glyph, row, x, y, scale_x, scale_y) ==
    IF row >= CGIFH_GLYPH_HEIGHT
    THEN <<>>
    ELSE (IF glyph.data[row + 1] # 0
          THEN GlyphRowCalls(px, glyph, row, 0, x, y, scale_x, scale_y)
          ELSE <<>>) \o
         GlyphCalls(px, glyph, row + 1, x, y + scale_y, scale_x, scale_y)

\* A blit that reports no advance for a glyph wholly outside the image.
CharScaledRunHiddenZero(impl, im, character, scale_x, scale_y, x, y) ==
    IF GlyphIsNull(impl, character)
    THEN [ret |-> 0, px |-> "none", calls |-> <<>>, ub |-> TRUE]
    ELSE LET glyph == font_h8(character)
             px == cgifh_get_px_fn(impl, im, x, y,
                                   x + glyph.advance * scale_x,
                                   y + 8 * scale_y)
         IN  IF glyph.advance = 0 \/ px = "NULL"
             THEN [ret |-> 0, px |-> px, calls |-> <<>>, ub |-> FALSE]
             ELSE [ret |-> glyph.advance * scale_x, px |-> px,
                   calls |-> GlyphCalls(px, glyph, 0, x, y, scale_x, scale_y),
                   ub |-> FALSE]

\* cgifh_char_scaled: [ret, px, calls, ub].  A NULL glyph is dereferenced
\* before it is tested.
CharScaledRun(impl, im, character, scale_x, scale_y, x, y) ==
    IF GlyphIsNull(impl, character)
    THEN [ret |-> 0, px |-> "none", calls |-> <<>>, ub |-> TRUE]
    ELSE LET glyph == font_h8(character)
             px == cgifh_get_px_fn(impl, im, x, y,
                                   x + glyph.advance * scale_x,
                                   y + 8 * scale_y)
         IN  IF glyph.advance = 0
             THEN [ret |-> 0, px |-> px, calls |-> <<>>, ub |-> FALSE]
             ELSE IF px = "NULL"
             THEN [ret |-> glyph.advance * scale_x, px |-> px,
                   calls |-> <<>>, ub |-> FALSE]
             ELSE [ret |-> glyph.advance * scale_x, px |-> px,
                   calls |-> GlyphCalls(px, glyph, 0, x, y, scale_x, scale_y),
                   ub |-> FALSE]

\* A text loop that hands every character the x it was given itself.
RECURSIVE TextRunAtX(_, _, _, _, _, _, _, _)
TextRunAtX(impl, im, text, k, scale, x, y, advance) ==
    IF k > Len(text)
    THEN [ret |-> advance, px |-> "none", calls |-> <<>>, ub |-> FALSE]
    ELSE LET ch == CharScaledRun(impl, im, text[k], scale, scale, x, y)
         IN  IF ch.ub
             THEN [ret |-> advance, px |-> "none", calls |-> <<>>, ub |-> TRUE]
             ELSE LET rest == TextRunAtX(impl, im, text, k + 1, scale, x, y,
                                         advance + ch.ret)
                  IN  [ret |-> rest.ret, px |-> "none",
                       calls |-> ch.calls \o rest.calls, ub |-> rest.ub]

\* cgifh_text: the loop over the characters, from the k-th on.
RECURSIVE TextRun(_, _, _, _, _, _, _, _)
TextRun(impl, im, text, k, scale, x, y, advance) ==
    IF k > Len(text)
    THEN [ret |-> advance, px |-> "none", calls |-> <<>>, ub |-> FALSE]
    ELSE LET ch == CharScaledRun(impl, im, text[k], scale, scale, x + advance, y)
         IN  IF ch.ub
             THEN [ret |-> advance, px |-> "none", calls |-> <<>>, ub |-> TRUE]
             ELSE LET rest == TextRun(impl, im, text, k + 1, scale, x, y,
                                      advance + ch.ret)
                  IN  [ret |-> rest.ret, px |-> "none",
                       calls |-> ch.calls \o rest.calls, ub |-> rest.ub]

\* cgifh_text_width: the loop over the characters, from the k-th on.
RECURSIVE TextWidthLoop(_, _, _, _)
TextWidthLoop(impl, text, k, advance) ==
    IF k > Len(text)
    THEN advance
    ELSE TextWidthLoop(impl, text, k + 1,
                       IF GlyphIsNull(impl, text[k])
                       THEN advance
                       ELSE advance + font_h8(text[k]).advance)

\* cgifh_text_width(text, scale)
cgifh_text_width(impl, text, scale) == TextWidthLoop(impl, text, 1, 0) * scale

(***************************************************************************)
(* The drawing calls, as actions.                                          *)
(***************************************************************************)
\* The effect of a primitive that made the calls.
Drawn(op, impl, args, text, colour, px, calls, ret, crashed) ==
    /\ pre' = img
    /\ img' = ApplyCalls(img, colour, calls)
    /\ ub' = (crashed \/ CallsOverrun(img, calls))
    /\ last' = [Called(op, impl, args) EXCEPT
                  !.text = text, !.px = px, !.calls = calls, !.ret = ret]
    /\ nops' = nops + 1

\* The effect of cgifh_h_line and cgifh_v_line.
DrawnSpan(op, args, colour, px, calls, wraps) ==
    /\ pre' = img
    /\ img' = ApplyCalls(img, colour, calls)
    /\ ub' = CallsOverrun(img, calls)
    /\ last' = [Called(op, "c", args) EXCEPT
                  !.px = px, !.calls = calls, !.wrapped = wraps]
    /\ nops' = nops + 1

\* cgifh_h_line(img, colour, x0, x1, y)
HLine(colour, x0, x1, y) ==
    /\ Usable
    /\ LET px == GetPxFnC(img, x0, y, x1, y)
       IN  \E wraps \in LoopWraps(px, Max(x0, x1)) :
              DrawnSpan("h_line", <<colour, x0, x1, y>>, colour, px,
                        IF px = "NULL" THEN <<>>
                        ELSE IF wraps THEN HLineWrapCalls(px, x0, x1, y)
                        ELSE HLineCalls(px, x0, x1, y),
                        wraps)

\* cgifh_v_line(img, colour, y0, y1, x)
VLine(colour, y0, y1, x) ==
    /\ Usable
    /\ LET px == GetPxFnC(img, x, y0, x, y1)
       IN  \E wraps \in LoopWraps(px, Max(y0, y1)) :
              DrawnSpan("v_line", <<colour, y0, y1, x>>, colour, px,
                        IF px = "NULL" THEN <<>>
                        ELSE IF wraps THEN VLineWrapCalls(px, y0, y1, x)
                        ELSE VLineCalls(px, y0, y1, x),
                        wraps)

\* cgifh_line(img, colour, x0, y0, x1, y1)
Line(impl, colour, x0, y0, x1, y1) ==
    /\ Usable
    /\ LET px == cgifh_get_px_fn(impl, img, x0, y0, x1, y1)
       IN  Drawn("line", impl, <<colour, x0, y0, x1, y1>>, <<>>, colour, px,
                 IF px = "NULL" THEN <<>> ELSE LineCalls(px, x0, y0, x1, y1),
                 0, FALSE)

\* cgifh_rect_fill(img, colour, x, y, w, h)
RectFill(colour, x, y, w, h) ==
    /\ Usable
    /\ LET px == GetPxFnC(img, x, y, x + w, y + h)
       IN  Drawn("rect_fill", "c", <<colour, x, y, w, h>>, <<>>, colour, px,
                 IF px = "NULL" THEN <<>> ELSE RectCalls(px, x, y, w, h),
                 0, FALSE)

\* cgifh_char_scaled(img, colour, character, scale_x, scale_y, x, y)
CharScaled(impl, colour, character, scale_x, scale_y, x, y) ==
    /\ Usable
    /\ LET r == CharScaledRun(impl, img, character, scale_x, scale_y, x, y)
       IN  Drawn("char_scaled", impl,
                 <<colour, character, scale_x, scale_y, x, y>>, <<>>,
                 colour, r.px, r.calls, r.ret, r.ub)

\* cgifh_char(img, colour, character, scale, x, y)
Char(impl, colour, character, scale, x, y) ==
    /\ Usable
    /\ LET r == CharScaledRun(impl, img, character, scale, scale, x, y)
       IN  Drawn("char", impl, <<colour, character, scale, x, y>>, <<>>,
                 colour, r.px, r.calls, r.ret, r.ub)

\* cgifh_text(img, colour, text, scale, x, y)
Text(impl, colour, text, scale, x, y) ==
    /\ Usable
    /\ LET r == TextRun(impl, img, text, 1, scale, x, y, 0)
       IN  Drawn("text", impl, <<colour, scale, x, y>>, text,
                 colour, r.px, r.calls, r.ret, r.ub)

\* cgifh_get_px_fn(img, test_x0, test_y0, test_x1, test_y1), called directly.
GetPxFn(impl, test_x0, test_y0, test_x1, test_y1) ==
    /\ Usable
    /\ pre' = img
    /\ last' = [Called("get_px_fn", impl, <<test_x0, test_y0, test_x1, test_y1>>)
                  EXCEPT !.px = cgifh_get_px_fn(impl, img, test_x0, test_y0,
                                                test_x1, test_y1)]
    /\ nops' = nops + 1
    /\ UNCHANGED <<img, ub>>

\* cgifh_text_width(text, scale): it reads the font alone.
TextWidth(impl, text, scale) ==
    /\ pre' = img
    /\ last' = [Called("text_width", impl, <<scale>>) EXCEPT
                  !.text = text, !.ret = cgifh_text_width(impl, text, scale)]
    /\ nops' = nops + 1
    /\ UNCHANGED <<img, ub>>

(***************************************************************************)
(* SpecDraw: one drawing call on a freshly created image.  Lines and       *)
(* rectangles are drawn on the images of up to MaxDim by MaxDim pixels,    *)
(* with coordinates up to Margin pixels outside them and two far ones;     *)
(* characters on two images that can hold a whole glyph.                   *)
(***************************************************************************)
MaxDim == 3

Margin == 1

MaxScale == 2

MaxTextLen == 2

SmallDims == {<<w, h>> : w \in 1 .. MaxDim, h \in 1 .. MaxDim}

GlyphDims ==
    {<<CGIFH_GLYPH_WIDTH + 1, CGIFH_GLYPH_HEIGHT + 1>>,
     <<2 * MaxScale + 1, CGIFH_GLYPH_HEIGHT * MaxScale + 1>>}

IsSmall(im) == im.width <= MaxDim /\ im.height <= MaxDim

Coords == (0 - Margin) .. (MaxDim + Margin - 1)

FarCoords == {0 - (MaxDim + Margin + 4), MaxDim + Margin + 4}

\* The ends of cgifh_h_line and cgifh_v_line: the above and the largest int.
SpanEnds == Coords \cup FarCoords \cup {INT_MAX}

Extents == (0 - 1) .. (MaxDim + 1)

\* Corner coordinates at both sides of the two edges of an axis.
EdgeCoords(extent) == {0 - 1, 0, extent - 1, extent}

DrawColours == {7}

\* The bytes passed as character: no glyph (0), blank (' '), narrow ('i'),
\* short initialiser ('B'), full width ('M'), the last one named ('}'), the
\* two codes only the table of 128 entries holds, and two bytes above it.
DrawChars == {0, 32, 105, 66, 77, 125, 126, 127, 128, 255}

AllChars == (0 .. 127) \cup {128, 255}

Scales == (0 - 1) .. MaxScale

CharXs(im) == {0 - (CGIFH_GLYPH_WIDTH * MaxScale + 1), 0 - 1, 0, 1, im.width - 1, im.width}

CharYs(im) == {0 - (CGIFH_GLYPH_HEIGHT * MaxScale + 1), 0 - 1, 0, 1, im.height}

RECURSIVE Strings(_, _)
Strings(alphabet, n) ==
    IF n = 0
    THEN {<<>>}
    ELSE LET shorter == Strings(alphabet, n - 1)
         IN  shorter \cup {Append(t, ch) : t \in shorter, ch \in alphabet}

\* Strings of 'i', 'M' and ' ', and some with a byte that has no glyph: an
\* entry of advance 0 (1), the codes above the last initialiser (126, 127)
\* and a byte above the table (200).
Texts ==
    Strings({105, 77, 32}, MaxTextLen)
        \cup {<<105, 200>>, <<1, 105>>, <<126, 77>>, <<105, 127>>}

InitDraw == InitWith({CreateImg(d[1], d[2]) : d \in SmallDims \cup GlyphDims})

NextDraw ==
    /\ last.op = "none"
    /\ \/ /\ IsSmall(img)
          /\ \/ \E c \in DrawColours, x0 \in SpanEnds, x1 \in SpanEnds,
                   y \in Coords \cup FarCoords :
                   HLine(c, x0, x1, y)
             \/ \E c \in DrawColours, y0 \in SpanEnds, y1 \in SpanEnds,
                   x \in Coords \cup FarCoords :
                   VLine(c, y0, y1, x)
             \/ \E impl \in Impls, c \in DrawColours, x0 \in Coords, y0 \in Coords,
                   x1 \in Coords, y1 \in Coords :
                   Line(impl, c, x0, y0, x1, y1)
             \/ \E c \in DrawColours, x \in Coords \cup FarCoords,
                   y \in Coords \cup FarCoords, w \in Extents, h \in Extents :
                   RectFill(c, x, y, w, h)
             \/ \E impl \in Impls,
                   x0 \in EdgeCoords(img.width), y0 \in EdgeCoords(img.height),
                   x1 \in EdgeCoords(img.width), y1 \in EdgeCoords(img.height) :
                   GetPxFn(impl, x0, y0, x1, y1)
       \/ /\ ~IsSmall(img)
          /\ \/ \E impl \in Impls, c \in DrawColours, ch \in DrawChars,
                   sx \in Scales, sy \in Scales,
                   x \in CharXs(img), y \in CharYs(img) :
                   CharScaled(impl, c, ch, sx, sy, x, y)
             \/ \E impl \in Impls, c \in DrawColours, ch \in AllChars,
                   s \in 1 .. MaxScale, p \in {0 - 1, 0, 1} :
                   Char(impl, c, ch, s, p, p)
             \/ \E impl \in Impls, c \in DrawColours, t \in Texts,
                   s \in 1 .. MaxScale, x \in {0 - 1, 0, 2}, y \in {0, 1} :
                   Text(impl, c, t, s, x, y)
             \/ \E impl \in Impls, t \in Texts, s \in Scales :
                   TextWidth(impl, t, s)

SpecDraw == InitDraw /\ [][NextDraw]_vars

(***************************************************************************)
(* SpecLine: cgifh_line followed iteration by iteration, its int variables *)
(* IntBits wide.  frame.steps counts the iterations that moved the point.  *)
(***************************************************************************)
\* Whether 2 * error can leave the range of int during the call: error stays
\* between dy and dx.
CanOverflow(x0, y0, x1, y1) ==
    2 * Max(Abs(x1 - x0), Abs(y1 - y0)) > INT_MAX

\* cgifh_line up to the loop: the dispatch and the return for px == NULL.
\* wraps is what the build makes of an overflow of 2 * error: the wrapped
\* product (TRUE) or a comparison that is right all the same (FALSE).
LineBegin(impl, colour, x0, y0, x1, y1, wraps) ==
    /\ Usable
    /\ last.op = "none"
    /\ LET px == cgifh_get_px_fn(impl, img, x0, y0, x1, y1)
           dx == Abs(x1 - x0)
           dy == 0 - Abs(y1 - y0)
       IN  last' = [Called("line", impl, <<colour, x0, y0, x1, y1>>) EXCEPT
                      !.px = px,
                      !.wrapped = wraps,
                      !.pc = IF px = "NULL" THEN "returned" ELSE "loop",
                      !.frame = [x0 |-> x0, y0 |-> y0, error |-> dx + dy,
                                 steps |-> 0]]
    /\ pre' = img
    /\ nops' = nops + 1
    /\ UNCHANGED <<img, ub>>

\* One iteration of the while (true) loop.
LineStep ==
    /\ last.op = "line"
    /\ last.pc = "loop"
    /\ LET f == last.frame
           x1 == last.args[4]
           y1 == last.args[5]
           sx == IF last.args[2] < x1 THEN 1 ELSE 0 - 1
           sy == IF last.args[3] < y1 THEN 1 ELSE 0 - 1
           dx == Abs(x1 - last.args[2])
           dy == 0 - Abs(y1 - last.args[3])
           call == <<PxCall(last.px, f.x0, f.y0)>>
           error2 == IF last.wrapped THEN ToInt(2 * f.error) ELSE 2 * f.error
           stepx == error2 >= dy
           stepy == error2 <= dx
       IN  /\ f.steps <= Max(dx, 0 - dy)
           /\ img' = ApplyCalls(img, last.args[1], call)
           /\ ub' = (ub \/ CallsOverrun(img, call))
           /\ last' =
                 IF f.x0 = x1 /\ f.y0 = y1
                 THEN [last EXCEPT !.pc = "returned",
                                  !.calls = Append(last.calls, call[1])]
                 ELSE [last EXCEPT
                         !.calls = Append(last.calls, call[1]),
                         !.frame =
                            [x0 |-> IF stepx THEN ToInt(f.x0 + sx) ELSE f.x0,
                             y0 |-> IF stepy THEN ToInt(f.y0 + sy) ELSE f.y0,
                             error |-> ToInt(f.error
                                             + (IF stepx THEN dy ELSE 0)
                                             + (IF stepy THEN dx ELSE 0)),
                             steps |-> f.steps + 1]]
    /\ UNCHANGED <<pre, nops>>

\* A coordinate far from the image and yet Margin below INT_MAX.
FarEnd == INT_MAX - Margin

\* The pairs of endpoints: all pairs near the image, and some far apart.
LineEnds ==
    (Coords \X Coords \X Coords \X Coords)
        \cup {<<0, 0, FarEnd, 0>>, <<0, 0, FarEnd, FarEnd>>, <<1, 0, 0, FarEnd>>,
              <<0, 0, FarEnd, 1>>, <<FarEnd, 0, 0, 0>>}

InitLine == InitWith({CreateImg(MaxDim, MaxDim)})

NextLine ==
    \/ \E impl \in Impls, c \in DrawColours, e \in LineEnds :
          \E wraps \in (IF CanOverflow(e[1], e[2], e[3], e[4])
                        THEN BOOLEAN ELSE {FALSE}) :
             LineBegin(impl, c, e[1], e[2], e[3], e[4], wraps)
    \/ LineStep

SpecLine == InitLine /\ [][NextLine]_vars

\* The loop is not left waiting: a call that has begun goes on.
SpecLineFair == SpecLine /\ WF_vars(LineStep)

(***************************************************************************)
(* Spec: an image in use.  Any sequence of up to MaxOps calls of the       *)
(* palette functions, cgifh_clear and the drawing primitives of            *)
(* src/src/cgifh.c on a 2 by 2 image whose palette holds 0 to 256 colours. *)
(***************************************************************************)
Init == InitWith({RampImg(2, 2, n) : n \in StartCounts})

UseColours == {<<0, 0, 0>>, <<255, 128, 1>>}

UseCoords == {0 - 1, 1}

Next ==
    /\ nops < MaxOps
    /\ \/ \E impl \in Impls, c \in UseColours : PaletteAdd(impl, c[1], c[2], c[3], TRUE)
       \/ \E impl \in Impls : PaletteAddBlend(impl, 0, 1, 128, TRUE)
       \/ Clear(0)
       \/ \E x0 \in UseCoords : HLine(1, x0, 1, 0)
       \/ \E y1 \in UseCoords : VLine(2, 0, y1, 1)
       \/ \E x0 \in UseCoords, y1 \in UseCoords : Line("c", 3, x0, 0, 2, y1)
       \/ \E x \in UseCoords : RectFill(4, x, 0, 2, 1)
       \/ \E ch \in {105, 0} : CharScaled("c", 5, ch, 1, 2, 0 - 1, 0 - 3)
       \/ Char("c", 6, 77, 1, 0 - 6, 0 - 5)
       \/ Text("c", 7, <<105, 32, 105>>, 1, 0 - 4, 0 - 2)

Spec == Init /\ [][Next]_vars

(***************************************************************************)
(* Claims.                                                                 *)
(***************************************************************************)
\* Palette entry i of an image, as <<r, g, b>>.
Entry(im, i) ==
    <<im.palette[CGIFH_CHANNEL_COUNT * i + 0],
      im.palette[CGIFH_CHANNEL_COUNT * i + 1],
      im.palette[CGIFH_CHANNEL_COUNT * i + 2]>>

IsPaletteCall == last.op \in {"palette_add", "palette_add_blend"}

\* What a successful cgifh_palette_add on a palette of c colours must do.
AddedAt(c, r, g, b) ==
    /\ last.ret = 1
    /\ Entry(img, c) = <<r, g, b>>
    /\ img.palette_count = c + 1
    /\ \A i \in DOMAIN img.palette :
          i \div CGIFH_CHANNEL_COUNT # c => img.palette[i] = pre.palette[i]
    /\ last.idx_written => last.idx = c

\* C2: cgifh_palette_add on a palette of c < 256 colours returns true, stores
\* (r, g, b) in entry c, sets palette_count to c + 1 and reports idx = c, in
\* both definitions (src/src/cgifh.c and src/include/cgifh.h).
C2_PaletteAddReportsIndex ==
    (last.op = "palette_add" /\ pre.palette_count < CGIFH_PALETTE_MAX)
        => AddedAt(pre.palette_count, last.args[1], last.args[2], last.args[3])

\* C2, for the definition of src/src/cgifh.c alone.
C2_PaletteAddReportsIndexC ==
    (last.op = "palette_add" /\ last.impl = "c"
        /\ pre.palette_count < CGIFH_PALETTE_MAX)
        => AddedAt(pre.palette_count, last.args[1], last.args[2], last.args[3])

\* C3: with palette_count = 256, cgifh_palette_add and cgifh_palette_add_blend
\* return false, leave the image unchanged and do not write *idx_out.
C3_FullPaletteRejects ==
    (IsPaletteCall /\ pre.palette_count = CGIFH_PALETTE_MAX)
        => /\ last.ret = 0
           /\ img = pre
           /\ img.palette_count = CGIFH_PALETTE_MAX
           /\ ~last.idx_written

C3_Witness ==
    /\ last.op = "palette_add_blend"
    /\ pre.palette_count = CGIFH_PALETTE_MAX
    /\ last.ret = 0
    /\ img.live

\* C4: in every state reachable by palette additions, cgifh_clear and drawing
\* calls, 0 <= palette_count <= 256, and palette_count never decreases from
\* one state to the next.
C4_PaletteCountBounded ==
    /\ [](img.palette_count >= 0 /\ img.palette_count <= CGIFH_PALETTE_MAX)
    /\ [][img'.palette_count >= img.palette_count]_vars

C4_Witness ==
    /\ nops = 2
    /\ last.op = "line"
    /\ img.palette_count = CGIFH_PALETTE_MAX
    /\ pre.palette_count = CGIFH_PALETTE_MAX
    /\ img.data # pre.data

\* C5: cgifh_create returns NULL when a dimension is 0 or above INT_MAX or
\* the product width * height exceeds INT_MAX; on success size is the
\* mathematical product and palette_count is 0.
C5_CreateRejectsOverflow ==
    last.op = "create" =>
        LET w == last.args[1]
            h == last.args[2]
        IN  /\ (w = 0 \/ h = 0 \/ w > INT_MAX \/ h > INT_MAX \/ w * h > INT_MAX)
                 => (last.ret = 0 /\ ~img.live)
            /\ last.ret = 1
                 => (img.live /\ img.size = w * h /\ img.palette_count = 0)

\* C6: for idx0, idx1 below palette_count < 256, a blend at pos 0 appends
\* the colour at idx0 and a blend at pos 255 appends the colour at idx1.
C6_BlendEndpoints ==
    (/\ last.op = "palette_add_blend"
     /\ pre.palette_count < CGIFH_PALETTE_MAX
     /\ last.args[1] < pre.palette_count
     /\ last.args[2] < pre.palette_count)
        => /\ last.ret = 1
           /\ img.palette_count = pre.palette_count + 1
           /\ last.args[3] = 0
                => Entry(img, pre.palette_count) = Entry(pre, last.args[1])
           /\ last.args[3] = 255
                => Entry(img, pre.palette_count) = Entry(pre, last.args[2])

C6_Witness ==
    /\ last.op = "palette_add_blend"
    /\ last.impl = "c"
    /\ last.args[3] = 255
    /\ last.args[1] < pre.palette_count
    /\ last.args[2] < pre.palette_count
    /\ pre.palette_count < CGIFH_PALETTE_MAX
    /\ Entry(pre, last.args[1])[1] < Entry(pre, last.args[2])[1]
    /\ Entry(pre, last.args[1])[2] > Entry(pre, last.args[2])[2]
    /\ Entry(img, pre.palette_count) = Entry(pre, last.args[2])


(***************************************************************************)
(* Claims about the drawing primitives.                                    *)
(***************************************************************************)
DrawOps == {"h_line", "v_line", "line", "rect_fill", "char_scaled", "char", "text"}

\* The bytes drawn by the last call all have a glyph in font_h8.
LastHasGlyphs ==
    /\ last.op \in {"char_scaled", "char"} => ~GlyphIsNull(last.impl, last.args[2])
    /\ last.op = "text"
         => \A k \in DOMAIN last.text : ~GlyphIsNull(last.impl, last.text[k])

\* C1: every pixel write of a drawing primitive of src/src/cgifh.c lands
\* inside the image, for any coordinates and sizes; when the dispatch chose
\* the unchecked setter, every coordinate passed to it is inside the image.
C1_WritesInsideImage ==
    (last.op \in DrawOps /\ last.impl = "c" /\ LastHasGlyphs)
        => /\ ~ub
           /\ \A k \in DOMAIN last.calls :
                 LET c == last.calls[k]
                 IN  /\ Stores(pre, c) => InImage(pre, c.x, c.y)
                     /\ c.px = "pixel" => InImage(pre, c.x, c.y)
                     /\ Stores(pre, c) => PixelIndex(pre, c) \in DOMAIN pre.data

C1_Witness ==
    /\ last.op = "char_scaled"
    /\ last.impl = "c"
    /\ last.px = "pixel"
    /\ last.args[3] = 1
    /\ Len(last.calls) > 8
    /\ \A k \in DOMAIN last.calls : InImage(pre, last.calls[k].x, last.calls[k].y)
    /\ ~ub

\* What cgifh_line leaves behind: the image and whether it overran it.
LineResult(impl, im, colour, x0, y0, x1, y1) ==
    LET px == cgifh_get_px_fn(impl, im, x0, y0, x1, y1)
        calls == IF px = "NULL" THEN <<>> ELSE LineCalls(px, x0, y0, x1, y1)
    IN  [img |-> ApplyCalls(im, colour, calls), ub |-> CallsOverrun(im, calls)]

\* The last call was cgifh_line and the line drawn the other way round
\* leaves the same image.
LastLineReversible ==
    LET r == LineResult(last.impl, pre, last.args[1],
                        last.args[4], last.args[5], last.args[2], last.args[3])
    IN  r.img = img /\ r.ub = ub

RECURSIVE Gcd(_, _)
Gcd(a, b) == IF b = 0 THEN a ELSE Gcd(b, a % b)

\* The longer extent of the line divided by the gcd of the two extents is odd
\* (a single point counts): the line passes through no midpoint between two
\* pixels.
OddReducedMajor(x0, y0, x1, y1) ==
    LET dx == Abs(x1 - x0)
        dy == Abs(y1 - y0)
    IN  \/ dx = 0 /\ dy = 0
        \/ (Max(dx, dy) \div Gcd(dx, dy)) % 2 = 1

CallPoints(calls) == {<<calls[k].x, calls[k].y>> : k \in DOMAIN calls}

\* The image is pre with exactly the pixels of pts set to colour.
OnlyPainted(pts, colour) ==
    /\ img.width = pre.width /\ img.height = pre.height
    /\ img.palette = pre.palette /\ img.palette_count = pre.palette_count
    /\ DOMAIN img.data = DOMAIN pre.data
    /\ \A c \in 0 .. (pre.width - 1), r \in 0 .. (pre.height - 1) :
          img.data[r * pre.width + c] =
              IF <<c, r>> \in pts THEN colour ELSE pre.data[r * pre.width + c]

\* C8: cgifh_line between two points inside the image writes both endpoints
\* and max(|dx|, |dy|) + 1 distinct pixels, each once; consecutive pixels are
\* 8-neighbours and the dominant axis moves by 1 at every step; a horizontal
\* line is the row segment, a 45 degree line the diagonal; nothing else changes.
C8_LineInside ==
    (/\ last.op = "line"
     /\ last.impl = "c"
     /\ InImage(pre, last.args[2], last.args[3])
     /\ InImage(pre, last.args[4], last.args[5]))
        => LET x0 == last.args[2]
               y0 == last.args[3]
               x1 == last.args[4]
               y1 == last.args[5]
               dx == Abs(x1 - x0)
               dy == Abs(y1 - y0)
               n == Len(last.calls)
               cs == last.calls
           IN  /\ ~ub
               /\ n = Max(dx, dy) + 1
               /\ <<cs[1].x, cs[1].y>> = <<x0, y0>>
               /\ <<cs[n].x, cs[n].y>> = <<x1, y1>>
               /\ Cardinality(CallPoints(cs)) = n
               /\ \A k \in 1 .. (n - 1) :
                     /\ Abs(cs[k + 1].x - cs[k].x) <= 1
                     /\ Abs(cs[k + 1].y - cs[k].y) <= 1
                     /\ dx >= dy => Abs(cs[k + 1].x - cs[k].x) = 1
                     /\ dy >= dx => Abs(cs[k + 1].y - cs[k].y) = 1
               /\ y0 = y1
                    => CallPoints(cs) = {<<c, y0>> : c \in Min(x0, x1) .. Max(x0, x1)}
               /\ dx = dy
                    => CallPoints(cs) =
                          {<<x0 + k * (IF x0 < x1 THEN 1 ELSE -1),
                             y0 + k * (IF y0 < y1 THEN 1 ELSE -1)>> : k \in 0 .. dx}
               /\ OnlyPainted(CallPoints(cs), last.args[1])

C8_Witness ==
    /\ last.op = "line"
    /\ last.impl = "c"
    /\ last.px = "pixel"
    /\ last.args[2] = 0 /\ last.args[3] = 0
    /\ last.args[4] = 2 /\ last.args[5] = 1
    /\ Len(last.calls) = 3
    /\ img.data[0] = last.args[1]
    /\ img.data[1 * img.width + 2] = last.args[1]

\* The box the last call hands to the clip dispatch.
LastBox ==
    CASE last.op = "h_line" ->
            <<last.args[2], last.args[4], last.args[3], last.args[4]>>
      [] last.op = "v_line" ->
            <<last.args[4], last.args[2], last.args[4], last.args[3]>>
      [] last.op = "line" ->
            <<last.args[2], last.args[3], last.args[4], last.args[5]>>
      [] last.op = "rect_fill" ->
            <<last.args[2], last.args[3],
              last.args[2] + last.args[4], last.args[3] + last.args[5]>>
      [] last.op = "char_scaled" ->
            <<last.args[5], last.args[6],
              last.args[5] + font_h8(last.args[2]).advance * last.args[3],
              last.args[6] + 8 * last.args[4]>>

\* The box lies left of, right of, above or below the image.
BoxOutside(im, box) ==
    \/ Max(box[1], box[3]) < 0
    \/ Min(box[1], box[3]) >= im.width
    \/ Max(box[2], box[4]) < 0
    \/ Min(box[2], box[4]) >= im.height

\* C9: a primitive whose bounding box lies entirely outside the image writes
\* no pixel: buffer, palette and palette_count are as before the call.
C9_OutsideDrawsNothing ==
    (/\ last.op \in {"h_line", "v_line", "line", "rect_fill", "char_scaled"}
     /\ last.impl = "c"
     /\ LastHasGlyphs
     /\ BoxOutside(pre, LastBox))
        => /\ img = pre
           /\ ~ub
           /\ \A k \in DOMAIN last.calls : ~Stores(pre, last.calls[k])

C9_Witness ==
    /\ last.op = "rect_fill"
    /\ last.args[4] > 0 /\ last.args[5] > 0
    /\ BoxOutside(pre, LastBox)
    /\ last.args[2] = pre.width
    /\ last.px = "NULL"
    /\ img = pre

\* C10: after cgifh_rect_fill(img, colour, x, y, w, h) an image pixel (c, r)
\* holds colour if x <= c < x+w and y <= r < y+h and its previous value
\* otherwise, wherever the rectangle lies; w <= 0 or h <= 0 changes nothing.
C10_RectFillExact ==
    last.op = "rect_fill"
        => LET x == last.args[2]
               y == last.args[3]
               w == last.args[4]
               h == last.args[5]
           IN  /\ ~ub
               /\ OnlyPainted({p \in (0 .. (pre.width - 1)) \X (0 .. (pre.height - 1)) :
                                  /\ x <= p[1] /\ p[1] < x + w
                                  /\ y <= p[2] /\ p[2] < y + h},
                              last.args[1])
               /\ (w <= 0 \/ h <= 0) => img = pre

C10_Witness ==
    /\ last.op = "rect_fill"
    /\ last.px = "clipped"
    /\ last.args[2] < 0
    /\ last.args[4] = 2 /\ last.args[5] = 2
    /\ img # pre
    /\ \E k \in DOMAIN last.calls : ~Stores(pre, last.calls[k])
    /\ \E i \in DOMAIN img.data : img.data[i] = pre.data[i]

\* The in-image pixels of the segment the last cgifh_h_line or cgifh_v_line
\* was asked for: from the smaller end to the larger, on the fixed row/column.
SpanPixels ==
    LET lo == Min(last.args[2], last.args[3])
        hi == Max(last.args[2], last.args[3])
        at == last.args[4]
    IN  {p \in (0 .. (pre.width - 1)) \X (0 .. (pre.height - 1)) :
            IF last.op = "h_line"
            THEN p[2] = at /\ lo <= p[1] /\ p[1] <= hi
            ELSE p[1] = at /\ lo <= p[2] /\ p[2] <= hi}

\* The last call was a cgifh_h_line or cgifh_v_line that returned having set
\* exactly the pixels of its segment.
SpanExact ==
    /\ ~last.wrapped
    /\ ~ub
    /\ OnlyPainted(SpanPixels, last.args[1])

\* C11, as stated: cgifh_h_line sets exactly the in-image pixels (c, y) with
\* min(x0, x1) <= c <= max(x0, x1) and changes nothing else, for all x0, x1
\* and y; cgifh_v_line likewise with the axes exchanged.
C11_SpanExact ==
    last.op \in {"h_line", "v_line"} => SpanExact

\* The same for ends below INT_MAX, where the loop counter cannot overflow:
\* either order of the ends gives the segment, and equal ends one pixel.
C11_SpanExactBelowMax ==
    (/\ last.op \in {"h_line", "v_line"}
     /\ Max(last.args[2], last.args[3]) < INT_MAX)
        => /\ SpanExact
           /\ (last.args[2] = last.args[3] /\ last.px # "NULL")
                 => Cardinality(SpanPixels) = 1

\* A line to INT_MAX whose counter wrapped: columns left of x0 are set too.
C11_WrappedSeen ==
    /\ last.op = "h_line"
    /\ last.wrapped
    /\ last.args[2] = 1
    /\ last.args[3] = INT_MAX
    /\ pre.width = 3
    /\ img.data[last.args[4] * pre.width] = last.args[1]
    /\ pre.data[last.args[4] * pre.width] # last.args[1]

(***************************************************************************)
(* Claims about characters and text.                                       *)
(***************************************************************************)
\* The byte the last cgifh_char_scaled or cgifh_char was given.
LastChar == last.args[2]

\* The last call was cgifh_char_scaled for a byte whose glyph has an advance.
LastCharHasAdvance ==
    /\ last.op = "char_scaled"
    /\ ~GlyphIsNull(last.impl, LastChar)
    /\ font_h8(LastChar).advance # 0

\* C12: for a glyph with nonzero advance and scale_x >= 1, cgifh_char_scaled
\* returns advance * scale_x wherever the glyph is put: inside the image,
\* across its edge or outside it.  Both definitions.
C12_CharAdvance ==
    (LastCharHasAdvance /\ last.args[3] >= 1)
        => /\ last.ret = font_h8(LastChar).advance * last.args[3]
           /\ ~ub

C12_Witness ==
    /\ LastCharHasAdvance
    /\ last.args[3] = 2
    /\ last.args[4] = 1
    /\ last.px = "NULL"
    /\ img = pre
    /\ last.ret = 2 * font_h8(LastChar).advance
    /\ last.ret > 0

\* C13, as stated: for a byte without a glyph (no table entry, or an entry of
\* advance 0) cgifh_char_scaled returns 0, writes nothing and makes no
\* invalid access.
C13_NoGlyphSafe ==
    (/\ last.op = "char_scaled"
     /\ \/ GlyphIsNull(last.impl, LastChar)
        \/ font_h8(LastChar).advance = 0)
        => /\ ~ub
           /\ last.ret = 0
           /\ img = pre
           /\ last.calls = <<>>

\* The same for the bytes that have a table entry, of advance 0.
C13_BlankEntrySafe ==
    (/\ last.op = "char_scaled"
     /\ ~GlyphIsNull(last.impl, LastChar)
     /\ font_h8(LastChar).advance = 0)
        => /\ ~ub
           /\ last.ret = 0
           /\ img = pre
           /\ last.calls = <<>>

\* The bytes of the text are ASCII bytes 1 .. 127.
IsAscii(text) == \A k \in DOMAIN text : text[k] >= 1 /\ text[k] <= 127

\* The table advance of a byte under the definition of src/src/cgifh.c.
TableAdvance(ch) == IF ch < CGIFH_GLYPH_COUNT THEN font_h8(ch).advance ELSE 0

\* The sum of the table advances of the first n bytes of the text.
RECURSIVE AdvanceSum(_, _)
AdvanceSum(text, n) ==
    IF n = 0 THEN 0 ELSE AdvanceSum(text, n - 1) + TableAdvance(text[n])

\* The calls of the characters k .. Len(text), each blitted on its own at
\* x plus scale times the table advances of the characters before it.
RECURSIVE CharCallsFrom(_, _, _, _, _, _)
CharCallsFrom(im, text, k, scale, x, y) ==
    IF k > Len(text)
    THEN <<>>
    ELSE CharScaledRun("c", im, text[k], scale, scale,
                       x + scale * AdvanceSum(text, k - 1), y).calls
         \o CharCallsFrom(im, text, k + 1, scale, x, y)

\* C14: for a string of ASCII bytes 1 .. 127 and scale >= 1, cgifh_text of
\* src/src/cgifh.c returns the sum of the characters' table advances times
\* scale at every position, which is what cgifh_text_width returns for the
\* text; character k is drawn at x plus the advances of the characters
\* before it.
C14_TextAdvance ==
    /\ (/\ last.op = "text"
        /\ last.impl = "c"
        /\ IsAscii(last.text)
        /\ last.args[2] >= 1)
           => /\ ~ub
              /\ last.ret = last.args[2] * AdvanceSum(last.text, Len(last.text))
              /\ last.ret = cgifh_text_width("c", last.text, last.args[2])
              /\ last.calls = CharCallsFrom(pre, last.text, 1, last.args[2],
                                            last.args[3], last.args[4])
    /\ (/\ last.op = "text_width"
        /\ last.impl = "c"
        /\ IsAscii(last.text))
           => last.ret = last.args[1] * AdvanceSum(last.text, Len(last.text))

\* 'M' then 'i' at scale 2: the 'i' starts 16 pixels right of x, outside the
\* image, and the advance of both is returned.
C14_Witness ==
    /\ last.op = "text"
    /\ last.impl = "c"
    /\ last.text = <<77, 105>>
    /\ last.args[2] = 2
    /\ last.ret = 2 * (font_h8(77).advance + font_h8(105).advance)
    /\ last.ret > pre.width
    /\ img # pre
    /\ \E k \in DOMAIN last.calls : ~Stores(pre, last.calls[k])

\* Bit (0x80 >> c) of row r of the glyph of a byte, read off the row's value.
RowHasBit(ch, r, c) ==
    LET value == font_h8(ch).data[r + 1]
    IN  (value % (2 ^ (8 - c))) >= 2 ^ (7 - c)

\* The pixels of the scale_x by scale_y blocks of the set bits of a glyph
\* put at (x, y).
BlockPixels(ch, sx, sy, x, y) ==
    {<<x + c * sx + j, y + r * sy + i>> :
        <<r, c, i, j>> \in {q \in (0 .. 7) \X (0 .. 7) \X (0 .. (sy - 1)) \X (0 .. (sx - 1)) :
                              RowHasBit(ch, q[1], q[2])}}

\* The last call was cgifh_char_scaled with scales >= 1 for a glyph with an
\* advance whose footprint lies inside the image.
LastGlyphInside ==
    /\ LastCharHasAdvance
    /\ last.args[3] >= 1
    /\ last.args[4] >= 1
    /\ last.args[5] >= 0
    /\ last.args[6] >= 0
    /\ last.args[5] + font_h8(LastChar).advance * last.args[3] <= pre.width
    /\ last.args[6] + CGIFH_GLYPH_HEIGHT * last.args[4] <= pre.height

\* C15: a glyph with nonzero advance drawn inside the image with scales >= 1
\* sets pixel (x + c*scale_x + j, y + r*scale_y + i) to colour for every set
\* bit (0x80 >> c) of row r and 0 <= j < scale_x, 0 <= i < scale_y, and no
\* other pixel; every one of them lies in the footprint
\* [x, x + advance*scale_x) x [y, y + 8*scale_y).
C15_GlyphBlocks ==
    LastGlyphInside
        => LET sx == last.args[3]
               sy == last.args[4]
               x == last.args[5]
               y == last.args[6]
               blocks == BlockPixels(LastChar, sx, sy, x, y)
           IN  /\ ~ub
               /\ CallPoints(last.calls) = blocks
               /\ \A p \in blocks :
                     /\ x <= p[1] /\ p[1] < x + font_h8(LastChar).advance * sx
                     /\ y <= p[2] /\ p[2] < y + CGIFH_GLYPH_HEIGHT * sy
                     /\ InImage(pre, p[1], p[2])
               /\ OnlyPainted(blocks, last.args[1])

\* 'i' at scale (2, 2) and (x, y) = (0, 0) through the unchecked setter: the
\* dot of its first row is the block of four pixels at (0, 0), and its blank
\* second row leaves the pixels below untouched.
C15_Witness ==
    /\ LastGlyphInside
    /\ LastChar = 105
    /\ last.args[3] = 2 /\ last.args[4] = 2
    /\ last.args[5] = 0 /\ last.args[6] = 0
    /\ last.px = "pixel"
    /\ RowHasBit(105, 0, 0)
    /\ \A p \in {<<0, 0>>, <<1, 0>>, <<0, 1>>, <<1, 1>>} :
          img.data[p[2] * pre.width + p[1]] = last.args[1]
    /\ img.data[2 * pre.width] = pre.data[2 * pre.width]
    /\ img.data[2 * pre.width] # last.args[1]

(***************************************************************************)
(* Clipped against unclipped drawing.                                      *)
(***************************************************************************)
\* The calls a primitive of src/src/cgifh.c makes on an image.
PrimitiveCalls(op, im, args, text) ==
    CASE op = "h_line" ->
            LET px == GetPxFnC(im, args[2], args[4], args[3], args[4])
            IN  IF px = "NULL" THEN <<>>
                ELSE HLineCalls(px, args[2], args[3], args[4])
      [] op = "v_line" ->
            LET px == GetPxFnC(im, args[4], args[2], args[4], args[3])
            IN  IF px = "NULL" THEN <<>>
                ELSE VLineCalls(px, args[2], args[3], args[4])
      [] op = "line" ->
            LET px == GetPxFnC(im, args[2], args[3], args[4], args[5])
            IN  IF px = "NULL" THEN <<>>
                ELSE LineCalls(px, args[2], args[3], args[4], args[5])
      [] op = "rect_fill" ->
            LET px == GetPxFnC(im, args[2], args[3],
                               args[2] + args[4], args[3] + args[5])
            IN  IF px = "NULL" THEN <<>>
                ELSE RectCalls(px, args[2], args[3], args[4], args[5])
      [] op = "char_scaled" ->
            CharScaledRun("c", im, args[2], args[3], args[4],
                          args[5], args[6]).calls
      [] op = "char" ->
            CharScaledRun("c", im, args[2], args[3], args[3],
                          args[4], args[5]).calls
      [] op = "text" ->
            TextRun("c", im, text, 1, args[2], args[3], args[4], 0).calls

\* The arguments with every coordinate moved by (ox, oy).
MovedArgs(op, args, ox, oy) ==
    CASE op = "h_line" -> <<args[1], args[2] + ox, args[3] + ox, args[4] + oy>>
      [] op = "v_line" -> <<args[1], args[2] + oy, args[3] + oy, args[4] + ox>>
      [] op = "line" ->
            <<args[1], args[2] + ox, args[3] + oy, args[4] + ox, args[5] + oy>>
      [] op = "rect_fill" ->
            <<args[1], args[2] + ox, args[3] + oy, args[4], args[5]>>
      [] op = "char_scaled" ->
            <<args[1], args[2], args[3], args[4], args[5] + ox, args[6] + oy>>
      [] op = "char" -> <<args[1], args[2], args[3], args[4] + ox, args[5] + oy>>
      [] op = "text" -> <<args[1], args[2], args[3] + ox, args[4] + oy>>

\* Two opposite corners of the area the dispatch boxes of the call cover.
Corners(op, args, text) ==
    CASE op = "h_line" -> <<args[2], args[4], args[3], args[4]>>
      [] op = "v_line" -> <<args[4], args[2], args[4], args[3]>>
      [] op = "line" -> <<args[2], args[3], args[4], args[5]>>
      [] op = "rect_fill" ->
            <<args[2], args[3], args[2] + args[4], args[3] + args[5]>>
      [] op = "char_scaled" ->
            <<args[5], args[6],
              args[5] + TableAdvance(args[2]) * args[3],
              args[6] + 8 * args[4]>>
      [] op = "char" ->
            <<args[4], args[5],
              args[4] + TableAdvance(args[2]) * args[3],
              args[5] + 8 * args[3]>>
      [] op = "text" ->
            <<args[3], args[4],
              args[3] + args[2] * AdvanceSum(text, Len(text)),
              args[4] + 8 * args[2]>>

\* The smallest image that holds both the image im, at (left, top), and the
\* area between the corners; its pixels over im are those of im.
Enlarged(im, box) ==
    LET left == Max(0, 0 - Min(box[1], box[3]))
        top == Max(0, 0 - Min(box[2], box[4]))
        width == left + Max(im.width, Max(box[1], box[3]) + 1)
        height == top + Max(im.height, Max(box[2], box[4]) + 1)
    IN  [left |-> left, top |-> top,
         img |-> [im EXCEPT
                    !.width = width, !.height = height,
                    !.size = ToInt(SizeProduct(width, height)),
                    !.nbytes = width * height,
                    !.data = [i \in 0 .. (width * height - 1) |->
                                LET c == (i % width) - left
                                    r == (i \div width) - top
                                IN  IF InImage(im, c, r)
                                    THEN im.data[r * im.width + c]
                                    ELSE Uninit]]]

\* C16: what a primitive of src/src/cgifh.c leaves on the pixels of an image
\* it only partly overlaps is what it leaves on the same pixels of a larger
\* image with the same background that holds it whole, where every pixel
\* goes through the unchecked setter.
C16_ClippedIsRestriction ==
    (/\ last.op \in DrawOps
     /\ last.impl = "c"
     /\ LastHasGlyphs
     /\ ~last.wrapped
     /\ \A k \in 1 .. 4 : Corners(last.op, last.args, last.text)[k] < INT_MAX)
        => LET big == Enlarged(pre, Corners(last.op, last.args, last.text))
               calls == PrimitiveCalls(last.op, big.img,
                                       MovedArgs(last.op, last.args, big.left, big.top),
                                       last.text)
               whole == ApplyCalls(big.img, last.args[1], calls)
           IN  /\ ~ub
               /\ \A k \in DOMAIN calls : calls[k].px = "pixel"
               /\ ~CallsOverrun(big.img, calls)
               /\ \A c \in 0 .. (pre.width - 1), r \in 0 .. (pre.height - 1) :
                     img.data[r * pre.width + c] =
                         whole.data[(r + big.top) * big.img.width + (c + big.left)]

\* 'M' at scale 2 over the left and top edge of the image: part of it is
\* drawn, part discarded by the clipped setter.
C16_Witness ==
    /\ last.op = "char_scaled"
    /\ last.impl = "c"
    /\ LastChar = 77
    /\ last.args[3] = 2 /\ last.args[4] = 2
    /\ last.args[5] = 0 - 1 /\ last.args[6] = 0 - 1
    /\ last.px = "clipped"
    /\ img # pre
    /\ \E k \in DOMAIN last.calls : ~Stores(pre, last.calls[k])
    /\ \E k \in DOMAIN last.calls : Stores(pre, last.calls[k])
    /\ Enlarged(pre, Corners(last.op, last.args, last.text)).left = 1

(***************************************************************************)
(* Claims about the clip dispatch.                                         *)
(***************************************************************************)
\* The outcome the box with the two corners should have on the image.
Classified(im, x0, y0, x1, y1) ==
    IF /\ Min(x0, x1) >= 0 /\ Max(x0, x1) < im.width
       /\ Min(y0, y1) >= 0 /\ Max(y0, y1) < im.height
    THEN "pixel"
    ELSE IF \/ Max(x0, x1) < 0 \/ Min(x0, x1) >= im.width
            \/ Max(y0, y1) < 0 \/ Min(y0, y1) >= im.height
    THEN "NULL"
    ELSE "clipped"

\* The last call of cgifh_get_px_fn answered as the box is classified, and
\* answers the same with the corners exchanged.
LastDispatchRight ==
    /\ last.px = Classified(pre, last.args[1], last.args[2],
                            last.args[3], last.args[4])
    /\ last.px = cgifh_get_px_fn(last.impl, pre, last.args[3], last.args[4],
                                 last.args[1], last.args[2])

\* C17, as stated: both definitions of cgifh_get_px_fn return the unchecked
\* setter iff the box, its corners in either order, is inside the image, NULL
\* iff it is left of, right of, above or below it, the clipped setter
\* otherwise; exchanging the corners does not change the answer.
C17_DispatchClassifies ==
    last.op = "get_px_fn" => LastDispatchRight

\* The same for the definition of src/src/cgifh.c alone.
C17_DispatchClassifiesC ==
    (last.op = "get_px_fn" /\ last.impl = "c") => LastDispatchRight

\* The same for the definition of src/include/cgifh.h when the first corner
\* is the top left one.
C17_DispatchClassifiesOrderedH ==
    (/\ last.op = "get_px_fn"
     /\ last.impl = "h"
     /\ last.args[1] <= last.args[3]
     /\ last.args[2] <= last.args[4])
        => last.px = Classified(pre, last.args[1], last.args[2],
                                last.args[3], last.args[4])

(***************************************************************************)
(* Claims about the loop of cgifh_line.                                    *)
(***************************************************************************)
\* v lies between a and b, whichever is the larger.
Between(a, v, b) == Min(a, b) <= v /\ v <= Max(a, b)

\* The loop of the last cgifh_line has made at most max(|dx|, |dy|) steps,
\* its point lies between the endpoints, and once it is left the point is
\* (x1, y1) after exactly max(|dx|, |dy|) steps.
LoopOnTrack ==
    LET f == last.frame
        n == Max(Abs(last.args[4] - last.args[2]), Abs(last.args[5] - last.args[3]))
    IN  /\ f.steps <= n
        /\ Between(last.args[2], f.x0, last.args[4])
        /\ Between(last.args[3], f.y0, last.args[5])
        /\ last.pc = "returned"
              => /\ f.steps = n
                 /\ f.x0 = last.args[4]
                 /\ f.y0 = last.args[5]
                 /\ Len(last.calls) = n + 1

\* C18, as stated: for every pair of endpoints the loop of cgifh_line reaches
\* (x1, y1) after exactly max(|x1-x0|, |y1-y0|) steps and never steps past
\* it, with either setter.
C18_LoopReachesEnd ==
    (last.op = "line" /\ last.px # "NULL") => LoopOnTrack

\* The same where 2 * error stays in the range of int.
C18_LoopReachesEndNoOverflow ==
    (/\ last.op = "line"
     /\ last.px # "NULL"
     /\ ~CanOverflow(last.args[2], last.args[3], last.args[4], last.args[5]))
        => /\ LoopOnTrack
           /\ last.pc = "returned"
                 => last.calls = LineCalls(last.px, last.args[2], last.args[3],
                                           last.args[4], last.args[5])

\* The loop of a call in which 2 * error cannot overflow is running.
LoopRunsNoOverflow ==
    /\ last.pc = "loop"
    /\ ~CanOverflow(last.args[2], last.args[3], last.args[4], last.args[5])

LoopLeft == last.pc = "returned"

\* And there the loop is left.
C18_LoopReturnsNoOverflow == LoopRunsNoOverflow ~> LoopLeft

(***************************************************************************)
(* Claims about the palette as calls follow one another.                   *)
(***************************************************************************)
\* The step keeps every stored palette entry.
KeepsEntries ==
    \A i \in 0 .. (img.palette_count - 1) : Entry(img', i) = Entry(img, i)

\* The step, if a palette addition, changes at most the three bytes of entry
\* palette_count and the count; if another call, nothing of the palette.
PaletteFrame ==
    IF last'.op \in {"palette_add", "palette_add_blend"}
    THEN /\ img'.data = img.data
         /\ img'.width = img.width
         /\ img'.height = img.height
         /\ img'.size = img.size
         /\ img'.palette_count \in {img.palette_count, img.palette_count + 1}
         /\ \A b \in DOMAIN img.palette :
               b \div CGIFH_CHANNEL_COUNT # img.palette_count
                   => img'.palette[b] = img.palette[b]
         /\ last'.ret = 0 => img' = img
    ELSE /\ img'.palette = img.palette
         /\ img'.palette_count = img.palette_count

\* C19: the palette is append-only.  Every call (a palette addition that
\* succeeds or fails, cgifh_clear, a drawing call) keeps the entries stored
\* so far, and a palette addition changes only the three bytes of entry
\* palette_count and the count: not the pixels, width, height or size.
C19_PaletteAppendOnly == [][KeepsEntries /\ PaletteFrame]_vars

\* A colour added by the first call, at index 3, is still there after a
\* second addition.
C19_Witness ==
    /\ nops = 2
    /\ last.op = "palette_add_blend"
    /\ last.ret = 1
    /\ pre.palette_count = 4
    /\ img.palette_count = 5
    /\ Entry(pre, 3) = <<255, 128, 1>>
    /\ Entry(img, 3) = <<255, 128, 1>>
    /\ Entry(img, 4) # Entry(img, 3)

(***************************************************************************)
(* Claims about the arithmetic of the blend.                               *)
(***************************************************************************)
\* v lies between c0 and c1, hence in 0 .. 255 where the cast keeps it, and
\* at least as far from c0 as before.
ValueInRange(c0, c1, before, v) ==
    IF c0 <= c1
    THEN c0 <= before /\ before <= v /\ v <= c1
    ELSE c1 <= v /\ v <= before /\ before <= c0

\* The blend of the channels at pos is in range and at least as far from c0
\* as the blend at pos - 1.
BlendInRange(c0, c1, pos) ==
    ValueInRange(c0, c1,
                 IF pos > 0 THEN BlendValue(c0, c1, pos - 1) ELSE c0,
                 BlendValue(c0, c1, pos))

\* C20: for all channel values c0, c1 in 0 .. 255 and every pos the channel
\* cgifh_palette_add_blend computes lies between c0 and c1, so that the
\* (uint8_t) cast does not change it, and moves from c0 towards c1 as pos
\* grows: for the entry the call stored, and for every pair of channel
\* values at the pos of the call (the arithmetic is the same in both
\* definitions and for every image, and is gone through once for each pos).
C20_BlendInRange ==
    last.op = "palette_add_blend"
        => /\ last.ret = 1
           /\ \A k \in 1 .. CGIFH_CHANNEL_COUNT :
                 /\ BlendInRange(Entry(pre, 0)[k], Entry(pre, 1)[k], last.args[3])
                 /\ Entry(img, 2)[k] \in 0 .. 255
                 /\ Entry(img, 2)[k] =
                       BlendValue(Entry(pre, 0)[k], Entry(pre, 1)[k], last.args[3])
           /\ (last.impl = "c" /\ Entry(pre, 0)[1] = 0)
                 => \A c0 \in 0 .. 255, c1 \in 0 .. 255 :
                       BlendInRange(c0, c1, last.args[3])

\* Half way from (1, 254, 7) to (2, 3, 200): a channel one apart stays, a
\* falling and a rising one move.
C20_Witness ==
    /\ last.op = "palette_add_blend"
    /\ last.args[3] = 128
    /\ Entry(pre, 0) = <<1, 254, 7>>
    /\ Entry(pre, 1) = <<2, 3, 200>>
    /\ Entry(img, 2) = <<1, 129, 103>>

(***************************************************************************)
(* Claims about the glyph table.                                           *)
(***************************************************************************)
\* The entry of font_h8 for the byte: its advance is in 0 .. 8, its set bits
\* are at columns below the advance, and with advance 0 its rows are zero.
EntryWellFormed(ch) ==
    LET glyph == font_h8(ch)
    IN  /\ 0 <= glyph.advance
        /\ glyph.advance <= CGIFH_GLYPH_WIDTH
        /\ Len(glyph.data) = CGIFH_GLYPH_HEIGHT
        /\ \A r \in 0 .. 7, c \in 0 .. 7 :
              RowHasBit(ch, r, c) => c < glyph.advance
        /\ glyph.advance = 0 => \A r \in 1 .. 8 : glyph.data[r] = 0

\* C21: every entry of font_h8 has an advance in 0 .. 8, set bits only at
\* columns below its advance and, with advance 0, eight zero rows; hence
\* cgifh_char and cgifh_char_scaled call the setter only for pixels of the
\* box [x, x + advance*scale_x) x [y, y + 8*scale_y) they hand to the
\* dispatch.  For every byte that has an entry, in both definitions.
C21_GlyphsWithinAdvance ==
    (/\ last.op \in {"char", "char_scaled"}
     /\ ~GlyphIsNull(last.impl, LastChar))
        => LET glyph == font_h8(LastChar)
               sx == last.args[3]
               sy == IF last.op = "char" THEN last.args[3] ELSE last.args[4]
               x == IF last.op = "char" THEN last.args[4] ELSE last.args[5]
               y == IF last.op = "char" THEN last.args[5] ELSE last.args[6]
           IN  /\ EntryWellFormed(LastChar)
               /\ \A k \in DOMAIN last.calls :
                     /\ x <= last.calls[k].x
                     /\ last.calls[k].x < x + glyph.advance * sx
                     /\ y <= last.calls[k].y
                     /\ last.calls[k].y < y + CGIFH_GLYPH_HEIGHT * sy

\* 'M', the widest glyph: advance 8, its rightmost bit at column 6, drawn at
\* scale 2 with calls up to the column before last of its box.
C21_Witness ==
    /\ last.op = "char"
    /\ LastChar = 77
    /\ font_h8(77).advance = CGIFH_GLYPH_WIDTH
    /\ RowHasBit(77, 0, 6)
    /\ last.args[3] = 2
    /\ \E k \in DOMAIN last.calls : last.calls[k].x = last.args[4] + 6 * 2 + 1
    /\ \A k \in DOMAIN last.calls : last.calls[k].x < last.args[4] + 8 * 2

====
